---- MODULE Spec2Model ----
(***************************************************************************)
(* A model of src/utils/iced.rs: IcedElement, the adapter that embeds an   *)
(* iced program in the compositor's scene as one element backed by one     *)
(* pixel buffer per output scale.                                          *)
(*                                                                         *)
(* IcedElement is Arc<Mutex<IcedElementInternal>>.  A public operation     *)
(* takes the lock with `self.0.lock().unwrap()` and keeps the guard until  *)
(* it returns, so each operation is one atomic action here; the exception  *)
(* is output_leave, whose guard is a temporary of its first statement and  *)
(* which then calls refresh, which locks again: it is two actions, with    *)
(* pc[t] telling that thread t is between them.                            *)
(***************************************************************************)
EXTENDS Integers, Sequences, FiniteSets, TLC

\* ------------------------------------------------------------------ bounds
NumThreads == 2      \* threads calling into the element
NumOutputs == 2      \* distinct outputs of the host
MaxOutputsLen == 2   \* cap on the length of the outputs Vec
MaxDim == 1          \* logical width and height range over 0..MaxDim
MaxInflight == 2     \* cap on scheduled futures that have not completed
MaxHandles == 2      \* cap on live IcedElement handles

Threads == 1..NumThreads
Outputs == 1..NumOutputs

\* Scale factors in quarters: 4 is 1.0, 5 is 1.25, 8 is 2.0.
Scales == {4, 5, 8}
Sizes == (0..MaxDim) \X (0..MaxDim)

\* Pointer locations (f64 pairs); 16777217 = 2^24 + 1 is not an f32.
Points == {<<0, 0>>, <<3, 16777217>>}

\* Messages a completed future sends back to the program.
Msgs == {"a", "b"}

\* The actions of the Command a program update returns.
Commands == {<<>>, <<"Clipboard", "Future", "Window">>}

\* Host button codes: the three mapped ones, and unmapped ones below and
\* above 256.
ButtonCodes == {19, 272, 273, 274, 275}

\* Option<T>
None == <<>>
Some(x) == <<x>>

\* ----------------------------------------------------------------- helpers
Range(s) == {s[i] : i \in 1..Len(s)}

IsPrefix(p, s) == Len(p) <= Len(s) /\ p = SubSeq(s, 1, Len(p))

RECURSIVE Retain(_, _)
\* Vec::retain(|o| o != output)
Retain(s, o) ==
  IF s = <<>> THEN <<>>
  ELSE IF Head(s) = o THEN Retain(Tail(s), o)
       ELSE <<Head(s)>> \o Retain(Tail(s), o)

\* A conversion that truncates n * scale.
RoundScaled_Floor(n, scale) == (n * scale) \div 4

\* f64::round of n * scale, n >= 0, scale in quarters (half away from zero)
RoundScaled(n, scale) == (2 * n * scale + 4) \div 8

\* size.to_f64().to_buffer(scale, Transform::Normal).to_i32_round()
BufferSize(sz, scale) == <<RoundScaled(sz[1], scale), RoundScaled(sz[2], scale)>>

\* MemoryRenderBuffer::new(Fourcc::Argb8888, buffer_size, 1, Normal, None):
\* zero-initialised, nothing drawn into it yet.
NewBuffer(bsz) == [w |-> bsz[1], h |-> bsz[2], drawn |-> FALSE]

\* `x as f32` for an integral double x >= 0: exact below 2^24, rounded to a
\* multiple of 2 (ties to even) from 2^24 to 2^25.
F32(x) ==
  IF x < 16777216 THEN x
  ELSE LET q == x \div 2
       IN  IF x % 2 = 0 THEN x
           ELSE IF q % 2 = 0 THEN 2 * q ELSE 2 * (q + 1)

\* Program events, all of one shape.
Ev(kind, x, y, tag) == [kind |-> kind, x |-> x, y |-> y, tag |-> tag]

RECURSIVE NumFutures(_)
NumFutures(c) ==
  IF c = <<>> THEN 0
  ELSE (IF Head(c) = "Future" THEN 1 ELSE 0) + NumFutures(Tail(c))

\* A filter that returns the futures with the other actions.
NotFutures_KeepAll(c) == c

RECURSIVE NotFutures(_)
\* filter_map: Action::Future => None, any other action => Some(action)
NotFutures(c) ==
  IF c = <<>> THEN <<>>
  ELSE IF Head(c) = "Future" THEN NotFutures(Tail(c))
       ELSE <<Head(c)>> \o NotFutures(Tail(c))

\* ----------------------------------------------------------------- state
VARIABLES
  handles,          \* number of live IcedElement handles (the Arc's count)
  executor_token,   \* Option<RegistrationToken>: "Some", "None" or "Taken"
  registered,       \* the executor is a source of the host loop
  removed,          \* number of LoopHandle::remove calls made
  panicked,         \* a panic unwound out of the element's drop
  oscale,           \* output -> its current fractional scale
  outputs,          \* Vec<Output>
  buffers,          \* HashMap scale -> [buf, needs_redraw]
  size,             \* Size<i32, Logical>
  cursor_pos,       \* Option<Point<f64, Logical>>
  queued_events,    \* iced State: events queued for the next update
  queued_messages,  \* iced State: messages queued for the next update
  rx,               \* results sent on the channel and not received yet
  inflight,         \* futures scheduled and not completed
  pc,               \* thread -> "idle" or "leave" (inside output_leave)
  owed,             \* history: events queued by the callbacks that the
                    \* program's update has not consumed yet
  inOrder,          \* history: the program consumed the events in the
                    \* order the callbacks queued them
  last,             \* history: what the last completed call did
  fresh             \* history: the scales whose buffer was rasterized at
                    \* the current size, after the last update step that
                    \* processed a message and after the last force_update

vars == <<handles, executor_token, registered, removed, panicked, oscale,
          outputs, buffers, size, cursor_pos, queued_events, queued_messages,
          rx, inflight, pc, owed, inOrder, last, fresh>>

handleVars == <<handles, executor_token, registered, removed, panicked>>

\* What an update pass that did not run looks like in `last`.
NoPass == [ran |-> FALSE, drained |-> <<>>, stepped |-> FALSE, some |-> FALSE,
           events |-> <<>>, cursor |-> <<>>, ret |-> <<>>, sched |-> 0]

Call(op, arg, pass, raster, res) ==
  [op |-> op, arg |-> arg, pass |-> pass, raster |-> raster, res |-> res]

\* IcedElement::new: the executor is inserted into the host loop, and
\* `.ok()` keeps the token or None when insert_source failed; the first
\* forced update finds no event and no message.
Init ==
  /\ handles = 1
  /\ executor_token \in {"Some", "None"}
  /\ registered = (executor_token = "Some")
  /\ removed = 0
  /\ panicked = FALSE
  /\ oscale \in [Outputs -> Scales]
  /\ outputs = <<>>
  /\ buffers = [k \in {} |-> 0]
  /\ size \in Sizes
  /\ cursor_pos = None
  /\ queued_events = <<>>
  /\ queued_messages = <<>>
  /\ rx = <<>>
  /\ inflight = 0
  /\ pc = [t \in Threads |-> "idle"]
  /\ owed = <<>>
  /\ inOrder = TRUE
  /\ last = Call("new", <<>>, NoPass, FALSE, <<>>)
  /\ fresh = {}

Alive == handles >= 1

Idle(t) == Alive /\ pc[t] = "idle"

\* ------------------------------------------------------------ update pass
\* for (_buffer, needs_redraw) in buffers.values_mut(): *needs_redraw = true
MarkAll(bufs) == [k \in DOMAIN bufs |-> [bufs[k] EXCEPT !.needs_redraw = TRUE]]

\* Messages the widgets may produce from the queued events (the choice is
\* the view's); no event, no widget message.
UiChoices(evs) == IF evs = <<>> THEN {<<>>} ELSE {<<>>, <<"w">>}

\* Commands the program may return, capped by the futures in flight.
CmdChoices == {c \in Commands : inflight + NumFutures(c) <= MaxInflight}

\* iced_native::program::State::update as called by update(): the queued
\* events go to the widgets, their messages (ui) and the queued messages go
\* to Program::update, both queues are cleared, and the command is Some
\* exactly when there was a message.
StateUpdate(evs, msgs, ui, cmd) ==
  LET messages == ui \o msgs
  IN  [events |-> evs,
       messages |-> messages,
       command |-> IF messages = <<>> THEN None ELSE Some(cmd)]

\* cursor_pos.unwrap_or((-1.0, -1.0)), each coordinate `as f32`
CursorArg(cpos) ==
  IF cpos = None THEN <<-1, -1>> ELSE <<F32(cpos[1][1]), F32(cpos[1][2])>>

\* An update that runs the program step whether or not it is forced.
Update_AlwaysStep(force, bufs, evs, cpos, ui, cmd) ==
  LET su == StateUpdate(evs, queued_messages \o rx, ui, cmd)
      some == su.command # None
      actions == IF some THEN su.command[1] ELSE <<>>
  IN  [rx |-> <<>>, queued_events |-> <<>>, queued_messages |-> <<>>,
       buffers |-> MarkAll(bufs),
       messages |-> su.messages, actions |-> actions,
       accepted |-> IF executor_token = "Some" THEN NumFutures(actions) ELSE 0,
       pass |-> [ran |-> TRUE, drained |-> rx, stepped |-> TRUE, some |-> some,
                 events |-> su.events, cursor |-> CursorArg(cpos),
                 ret |-> NotFutures(actions), sched |-> NumFutures(actions)]]

\* An update that marks the buffers dirty whenever its program step ran.
Update_MarkOnStep(force, bufs, evs, cpos, ui, cmd) ==
  LET drained == rx
      msgs == queued_messages \o drained
      forced == force \/ drained # <<>>
  IN  IF ~forced
      THEN [rx |-> <<>>, queued_events |-> evs, queued_messages |-> msgs,
            buffers |-> bufs, messages |-> <<>>, actions |-> <<>>,
            accepted |-> 0,
            pass |-> [NoPass EXCEPT !.ran = TRUE]]
      ELSE LET su == StateUpdate(evs, msgs, ui, cmd)
               some == su.command # None
               actions == IF some THEN su.command[1] ELSE <<>>
           IN  [rx |-> <<>>, queued_events |-> <<>>, queued_messages |-> <<>>,
                buffers |-> MarkAll(bufs),
                messages |-> su.messages, actions |-> actions,
                accepted |-> IF executor_token = "Some"
                               THEN NumFutures(actions) ELSE 0,
                pass |-> [ran |-> TRUE, drained |-> drained,
                          stepped |-> TRUE, some |-> some,
                          events |-> su.events, cursor |-> CursorArg(cpos),
                          ret |-> NotFutures(actions),
                          sched |-> NumFutures(actions)]]

\* An update that takes one result from the channel, not all of them.
Update_DrainOne(force, bufs, evs, cpos, ui, cmd) ==
  LET drained == IF rx = <<>> THEN <<>> ELSE <<Head(rx)>>
      rest == IF rx = <<>> THEN <<>> ELSE Tail(rx)
      msgs == queued_messages \o drained
      forced == force \/ drained # <<>>
  IN  IF ~forced
      THEN [rx |-> rest, queued_events |-> evs, queued_messages |-> msgs,
            buffers |-> bufs, messages |-> <<>>, actions |-> <<>>,
            accepted |-> 0,
            pass |-> [NoPass EXCEPT !.ran = TRUE]]
      ELSE LET su == StateUpdate(evs, msgs, ui, cmd)
               some == su.command # None
               actions == IF some THEN su.command[1] ELSE <<>>
           IN  [rx |-> rest, queued_events |-> <<>>, queued_messages |-> <<>>,
                buffers |-> IF some THEN MarkAll(bufs) ELSE bufs,
                messages |-> su.messages, actions |-> actions,
                accepted |-> IF executor_token = "Some"
                               THEN NumFutures(actions) ELSE 0,
                pass |-> [ran |-> TRUE, drained |-> drained,
                          stepped |-> TRUE, some |-> some,
                          events |-> su.events, cursor |-> CursorArg(cpos),
                          ret |-> NotFutures(actions),
                          sched |-> NumFutures(actions)]]

\* IcedElementInternal::update(force) on buffers bufs, queued events evs and
\* cursor position cpos: the new values of the fields it writes, the
\* messages its program step processed and the actions of the command that
\* step returned, and in .pass what it did.
Update(force, bufs, evs, cpos, ui, cmd) ==
  LET drained == rx
      msgs == queued_messages \o drained
      forced == force \/ drained # <<>>
  IN  IF ~forced
      THEN [rx |-> <<>>, queued_events |-> evs, queued_messages |-> msgs,
            buffers |-> bufs, messages |-> <<>>, actions |-> <<>>,
            accepted |-> 0,
            pass |-> [NoPass EXCEPT !.ran = TRUE]]
      ELSE LET su == StateUpdate(evs, msgs, ui, cmd)
               some == su.command # None
               actions == IF some THEN su.command[1] ELSE <<>>
           IN  [rx |-> <<>>, queued_events |-> <<>>, queued_messages |-> <<>>,
                buffers |-> IF some THEN MarkAll(bufs) ELSE bufs,
                messages |-> su.messages, actions |-> actions,
                accepted |-> IF executor_token = "Some"
                               THEN NumFutures(actions) ELSE 0,
                pass |-> [ran |-> TRUE, drained |-> drained,
                          stepped |-> TRUE, some |-> some,
                          events |-> su.events, cursor |-> CursorArg(cpos),
                          ret |-> NotFutures(actions),
                          sched |-> NumFutures(actions)]]

\* The fields an update pass writes, in a call that queued the events evs;
\* the events the pass consumed are struck off the head of owed.
Commit(r, evs) ==
  /\ rx' = r.rx
  /\ queued_events' = r.queued_events
  /\ queued_messages' = r.queued_messages
  /\ buffers' = r.buffers
  /\ inflight' = inflight + r.accepted
  /\ LET o == owed \o evs
         c == r.pass.events
     IN  IF IsPrefix(c, o)
         THEN /\ owed' = SubSeq(o, Len(c) + 1, Len(o))
              /\ inOrder' = inOrder
         ELSE /\ owed' = o
              /\ inOrder' = FALSE

\* The buffers that are as fresh after the update pass r as before it: none
\* when its program step processed a message.
StillFresh(r) == IF r.pass.stepped /\ r.messages # <<>> THEN {} ELSE fresh

\* ------------------------------------------------------ resize, force_update
\* A resize without the early return on an unchanged size.
Resize_NoEarlyReturn(t, s) ==
  /\ Idle(t)
  /\ \E ui \in UiChoices(queued_events), cmd \in CmdChoices :
       LET bufs == [k \in DOMAIN buffers |->
                      [buf |-> NewBuffer(BufferSize(s, k)), needs_redraw |-> TRUE]]
           r == Update(TRUE, bufs, queued_events, cursor_pos, ui, cmd)
       IN  /\ size' = s
           /\ Commit(r, <<>>)
           /\ last' = Call("resize", s, r.pass, FALSE, <<>>)
           /\ fresh' = {}
           /\ UNCHANGED <<handleVars, oscale, outputs, cursor_pos, pc>>

\* A resize that reallocates the buffers and keeps their dirty flags.
Resize_KeepFlags(t, s) ==
  /\ Idle(t)
  /\ size # s
  /\ \E ui \in UiChoices(queued_events), cmd \in CmdChoices :
       LET bufs == [k \in DOMAIN buffers |->
                      [buf |-> NewBuffer(BufferSize(s, k)),
                       needs_redraw |-> buffers[k].needs_redraw]]
           r == Update(TRUE, bufs, queued_events, cursor_pos, ui, cmd)
       IN  /\ size' = s
           /\ Commit(r, <<>>)
           /\ last' = Call("resize", s, r.pass, FALSE, <<>>)
           /\ fresh' = {}
           /\ UNCHANGED <<handleVars, oscale, outputs, cursor_pos, pc>>

Resize(t, s) ==
  /\ Idle(t)
  /\ IF size = s
     THEN /\ last' = Call("resize", s, NoPass, FALSE, <<>>)
          /\ UNCHANGED <<handleVars, oscale, outputs, buffers, size, cursor_pos,
                         queued_events, queued_messages, rx, inflight, pc,
                         owed, inOrder, fresh>>
     ELSE \E ui \in UiChoices(queued_events), cmd \in CmdChoices :
            LET bufs == [k \in DOMAIN buffers |->
                           [buf |-> NewBuffer(BufferSize(s, k)),
                            needs_redraw |-> TRUE]]
                r == Update(TRUE, bufs, queued_events, cursor_pos, ui, cmd)
            IN  /\ size' = s
                /\ Commit(r, <<>>)
                /\ last' = Call("resize", s, r.pass, FALSE, <<>>)
                /\ fresh' = {}
                /\ UNCHANGED <<handleVars, oscale, outputs, cursor_pos, pc>>

\* A force_update that runs the forced pass and marks no buffer itself.
ForceUpdate_NoMark(t) ==
  /\ Idle(t)
  /\ \E ui \in UiChoices(queued_events), cmd \in CmdChoices :
       LET r == Update(TRUE, buffers, queued_events, cursor_pos, ui, cmd)
       IN  /\ Commit(r, <<>>)
           /\ last' = Call("force_update", <<>>, r.pass, FALSE, <<>>)
           /\ fresh' = {}
           /\ UNCHANGED <<handleVars, oscale, outputs, size, cursor_pos, pc>>

\* IcedElement::force_update
ForceUpdate(t) ==
  /\ Idle(t)
  /\ \E ui \in UiChoices(queued_events), cmd \in CmdChoices :
       LET r == Update(TRUE, MarkAll(buffers), queued_events, cursor_pos, ui, cmd)
       IN  /\ Commit(r, <<>>)
           /\ last' = Call("force_update", <<>>, r.pass, FALSE, <<>>)
           /\ fresh' = {}
           /\ UNCHANGED <<handleVars, oscale, outputs, size, cursor_pos, pc>>

\* ------------------------------------------------------------------ input
\* An input callback that leaves its events to a later update.
Input_Lazy(t, op, arg, evs, cpos) ==
  /\ Idle(t)
  /\ \E ui \in UiChoices(queued_events \o evs), cmd \in CmdChoices :
       LET r == Update(FALSE, buffers, queued_events \o evs, cpos, ui, cmd)
       IN  /\ Commit(r, evs)
           /\ cursor_pos' = cpos
           /\ last' = Call(op, arg, r.pass, FALSE, <<>>)
           /\ fresh' = StillFresh(r)
           /\ UNCHANGED <<handleVars, oscale, outputs, size, pc>>

\* An input callback: queue evs on the program state, set the cached cursor
\* position to cpos, then `internal.update(true)`.
Input(t, op, arg, evs, cpos) ==
  /\ Idle(t)
  /\ \E ui \in UiChoices(queued_events \o evs), cmd \in CmdChoices :
       LET r == Update(TRUE, buffers, queued_events \o evs, cpos, ui, cmd)
       IN  /\ Commit(r, evs)
           /\ cursor_pos' = cpos
           /\ last' = Call(op, arg, r.pass, FALSE, <<>>)
           /\ fresh' = StillFresh(r)
           /\ UNCHANGED <<handleVars, oscale, outputs, size, pc>>

\* IcedPoint::new(location.x as f32, location.y as f32)
CursorMoved(p) == Ev("CursorMoved", F32(p[1]), F32(p[2]), "")

\* An enter that queues the motion before the entry.
PointerEnter_Swapped(t, p) ==
  Input(t, "enter", p, <<CursorMoved(p), Ev("CursorEntered", 0, 0, "")>>, Some(p))

\* PointerTarget::enter
PointerEnter(t, p) ==
  Input(t, "enter", p, <<Ev("CursorEntered", 0, 0, ""), CursorMoved(p)>>, Some(p))

\* PointerTarget::motion
PointerMotion(t, p) ==
  Input(t, "motion", p, <<CursorMoved(p)>>, Some(p))

\* match event.button { 0x110 => Left, 0x111 => Right, 0x112 => Middle,
\*                      x => Other(x as u8) }
MouseButton(code) ==
  IF code = 272 THEN [tag |-> "Left", code |-> 0]
  ELSE IF code = 273 THEN [tag |-> "Right", code |-> 0]
  ELSE IF code = 274 THEN [tag |-> "Middle", code |-> 0]
  ELSE [tag |-> "Other", code |-> code % 256]

\* PointerTarget::button; pressed is event.state = ButtonState::Pressed
PointerButton(t, code, pressed) ==
  LET b == MouseButton(code)
  IN  Input(t, "button", <<code, pressed>>,
            <<Ev(IF pressed THEN "ButtonPressed" ELSE "ButtonReleased",
                 b.code, 0, b.tag)>>,
            cursor_pos)

\* The frames of PointerTarget::axis: discrete is Option<(i32, i32)>, axis
\* is (f64, f64).
AxisFrames == {[discrete |-> None, axis |-> <<0, 16777217>>],
               [discrete |-> Some(<<0, 1>>), axis |-> <<0, 15>>]}

\* PointerTarget::axis
PointerAxis(t, frame) ==
  Input(t, "axis", frame,
        <<IF frame.discrete # None
            THEN Ev("WheelScrolled", frame.discrete[1][1], frame.discrete[1][2], "Lines")
            ELSE Ev("WheelScrolled", F32(frame.axis[1]), F32(frame.axis[2]), "Pixels")>>,
        cursor_pos)

\* A leave that forgets the cursor position.
PointerLeave_Forget(t) ==
  Input(t, "leave", <<>>, <<Ev("CursorLeft", 0, 0, "")>>, None)

\* PointerTarget::leave
PointerLeave(t) ==
  Input(t, "leave", <<>>, <<Ev("CursorLeft", 0, 0, "")>>, cursor_pos)

\* ModifiersState as the set of its flags that are set.
ModifierStates == {{}, {"shift", "alt"}, {"ctrl", "logo"}}

\* IcedModifiers bits: SHIFT, CTRL, ALT, LOGO
ModBits(m) ==
  (IF "shift" \in m THEN 1 ELSE 0) + (IF "ctrl" \in m THEN 2 ELSE 0)
    + (IF "alt" \in m THEN 4 ELSE 0) + (IF "logo" \in m THEN 8 ELSE 0)

\* KeyboardTarget::modifiers
KeyboardModifiers(t, m) ==
  Input(t, "modifiers", m, <<Ev("ModifiersChanged", ModBits(m), 0, "")>>, cursor_pos)

\* SpaceElement::set_activate
SetActivate(t, activated) ==
  Input(t, "set_activate", activated,
        <<Ev(IF activated THEN "Focused" ELSE "Unfocused", 0, 0, "")>>, cursor_pos)

\* ---------------------------------------------------------------- outputs
Entry(sz, scale) == [buf |-> NewBuffer(BufferSize(sz, scale)), needs_redraw |-> TRUE]

\* An output_enter that allocates a buffer for the output's scale even
\* when the map has one.
OutputEnter_Replace(t, o) ==
  /\ Idle(t)
  /\ Len(outputs) < MaxOutputsLen
  /\ LET scale == oscale[o]
     IN  buffers' = [k \in DOMAIN buffers \cup {scale} |->
                       IF k = scale THEN Entry(size, scale) ELSE buffers[k]]
  /\ outputs' = Append(outputs, o)
  /\ last' = Call("output_enter", o, NoPass, FALSE, <<>>)
  /\ UNCHANGED <<handleVars, oscale, size, cursor_pos, queued_events,
                 queued_messages, rx, inflight, pc, owed, inOrder, fresh>>

\* SpaceElement::output_enter
OutputEnter(t, o) ==
  /\ Idle(t)
  /\ Len(outputs) < MaxOutputsLen
  /\ LET scale == oscale[o]
     IN  buffers' = IF scale \notin DOMAIN buffers
                      THEN [k \in DOMAIN buffers \cup {scale} |->
                              IF k = scale THEN Entry(size, scale) ELSE buffers[k]]
                      ELSE buffers
  /\ outputs' = Append(outputs, o)
  /\ last' = Call("output_enter", o, NoPass, FALSE, <<>>)
  /\ UNCHANGED <<handleVars, oscale, size, cursor_pos, queued_events,
                 queued_messages, rx, inflight, pc, owed, inOrder, fresh>>

\* A refresh that prunes the dead buffers and inserts none.
Refreshed_NoInsert(bufs, outs, sz) ==
  LET live == {oscale[o] : o \in Range(outs)}
  IN  [k \in DOMAIN bufs \cap live |-> bufs[k]]

\* A refresh that inserts the missing buffers and prunes none.
Refreshed_NoPrune(bufs, outs, sz) ==
  LET live == {oscale[o] : o \in Range(outs)}
  IN  [k \in DOMAIN bufs \cup live |->
         IF k \in DOMAIN bufs THEN bufs[k] ELSE Entry(sz, k)]

\* The body of SpaceElement::refresh: retain the buffers whose scale some
\* output has, then insert one for every output scale that has none.
Refreshed(bufs, outs, sz) ==
  LET live == {oscale[o] : o \in Range(outs)}
  IN  [k \in (DOMAIN bufs \cap live) \cup live |->
         IF k \in DOMAIN bufs THEN bufs[k] ELSE Entry(sz, k)]

\* SpaceElement::refresh
Refresh(t) ==
  /\ Idle(t)
  /\ buffers' = Refreshed(buffers, outputs, size)
  /\ fresh' = fresh \cap DOMAIN Refreshed(buffers, outputs, size)
  /\ last' = Call("refresh", <<>>, NoPass, FALSE, <<>>)
  /\ UNCHANGED <<handleVars, oscale, outputs, size, cursor_pos, queued_events,
                 queued_messages, rx, inflight, pc, owed, inOrder>>

\* SpaceElement::output_leave, first statement: lock, retain, unlock.
OutputLeave(t, o) ==
  /\ Idle(t)
  /\ outputs' = Retain(outputs, o)
  /\ pc' = [pc EXCEPT ![t] = "leave"]
  /\ UNCHANGED <<handleVars, oscale, buffers, size, cursor_pos, queued_events,
                 queued_messages, rx, inflight, owed, inOrder, last, fresh>>

\* SpaceElement::output_leave, second statement: self.refresh(), and return.
LeaveRefresh(t) ==
  /\ Alive
  /\ pc[t] = "leave"
  /\ buffers' = Refreshed(buffers, outputs, size)
  /\ fresh' = fresh \cap DOMAIN Refreshed(buffers, outputs, size)
  /\ pc' = [pc EXCEPT ![t] = "idle"]
  /\ last' = Call("output_leave", <<>>, NoPass, FALSE, <<>>)
  /\ UNCHANGED <<handleVars, oscale, outputs, size, cursor_pos, queued_events,
                 queued_messages, rx, inflight, owed, inOrder>>

\* ----------------------------------------------------------------- render
\* A render that allocates and draws a buffer for a scale that has none.
RenderElements_Ensure(t, scale, imported) ==
  /\ Idle(t)
  /\ \E ui \in UiChoices(queued_events), cmd \in CmdChoices :
       LET r == Update(FALSE, buffers, queued_events, cursor_pos, ui, cmd)
           bufs == [k \in DOMAIN r.buffers \cup {scale} |->
                      IF k = scale
                        THEN [buf |-> [NewBuffer(BufferSize(size, k)) EXCEPT !.drawn = TRUE],
                              needs_redraw |-> FALSE]
                        ELSE r.buffers[k]]
       IN  /\ Commit([r EXCEPT !.buffers = bufs], <<>>)
           /\ last' = Call("render_elements", scale, r.pass, TRUE,
                           IF imported THEN <<"element">> ELSE <<>>)
           /\ fresh' = StillFresh(r) \cup {scale}
           /\ UNCHANGED <<handleVars, oscale, outputs, size, cursor_pos, pc>>

\* A render that draws and clears the flag whatever the buffer's size.
RenderElements_ClearAlways(t, scale, imported) ==
  /\ Idle(t)
  /\ \E ui \in UiChoices(queued_events), cmd \in CmdChoices :
       LET r == Update(FALSE, buffers, queued_events, cursor_pos, ui, cmd)
           found == scale \in DOMAIN r.buffers
           bsz == BufferSize(size, scale)
           draw == found /\ r.buffers[scale].needs_redraw
           bufs == IF draw
                     THEN [r.buffers EXCEPT ![scale] =
                             [buf |-> [@.buf EXCEPT !.drawn = TRUE],
                              needs_redraw |-> FALSE]]
                     ELSE r.buffers
       IN  /\ Commit([r EXCEPT !.buffers = bufs], <<>>)
           /\ last' = Call("render_elements", scale, r.pass, draw,
                           IF found /\ imported THEN <<"element">> ELSE <<>>)
           /\ fresh' = StillFresh(r) \cup (IF draw THEN {scale} ELSE {})
           /\ UNCHANGED <<handleVars, oscale, outputs, size, cursor_pos, pc>>

\* AsRenderElements::render_elements for scale.x = scale; imported tells
\* whether MemoryRenderBufferRenderElement::from_buffer returned Ok.
RenderElements(t, scale, imported) ==
  /\ Idle(t)
  /\ \E ui \in UiChoices(queued_events), cmd \in CmdChoices :
       LET r == Update(FALSE, buffers, queued_events, cursor_pos, ui, cmd)
           found == scale \in DOMAIN r.buffers
           bsz == BufferSize(size, scale)
           draw == found /\ r.buffers[scale].needs_redraw /\ bsz[1] > 0 /\ bsz[2] > 0
           bufs == IF draw
                     THEN [r.buffers EXCEPT ![scale] =
                             [buf |-> [@.buf EXCEPT !.drawn = TRUE],
                              needs_redraw |-> FALSE]]
                     ELSE r.buffers
       IN  /\ Commit([r EXCEPT !.buffers = bufs], <<>>)
           /\ last' = Call("render_elements", scale, r.pass, draw,
                           IF found /\ imported THEN <<"element">> ELSE <<>>)
           /\ fresh' = StillFresh(r) \cup (IF draw THEN {scale} ELSE {})
           /\ UNCHANGED <<handleVars, oscale, outputs, size, cursor_pos, pc>>

\* ------------------------------------------------------------ async bridge
\* The host loop runs the executor source: a future completes and the
\* callback sends its message on the channel.
Deliver(m) ==
  /\ Alive
  /\ registered
  /\ inflight > 0
  /\ inflight' = inflight - 1
  /\ rx' = Append(rx, m)
  /\ UNCHANGED <<handleVars, oscale, outputs, buffers, size, cursor_pos,
                 queued_events, queued_messages, pc, owed, inOrder, last, fresh>>

\* ----------------------------------------------------------------- handles
stateVars == <<oscale, outputs, buffers, size, cursor_pos, queued_events,
               queued_messages, rx, inflight, pc, owed, inOrder, last, fresh>>

\* Clone for IcedElement: one more reference to the same Arc.
CloneHandle ==
  /\ Alive
  /\ handles < MaxHandles
  /\ handles' = handles + 1
  /\ UNCHANGED <<executor_token, registered, removed, panicked, stateVars>>

\* A drop that deregisters with every handle, not with the last one.
DropHandle_EveryHandle ==
  /\ Alive
  /\ handles = 1 => \A t \in Threads : pc[t] = "idle"
  /\ handles' = handles - 1
  /\ IF executor_token = "Some"
     THEN /\ executor_token' = "Taken"
          /\ registered' = FALSE
          /\ removed' = removed + 1
          /\ UNCHANGED panicked
     ELSE /\ panicked' = TRUE
          /\ UNCHANGED <<executor_token, registered, removed>>
  /\ UNCHANGED stateVars

\* Dropping an IcedElement: the Arc's count goes down, and the drop of the
\* last reference runs Drop for IcedElementInternal:
\* handle.remove(executor_token.take().unwrap()).  A call in progress
\* borrows a handle, so the last one cannot go during it.
DropHandle ==
  /\ Alive
  /\ handles = 1 => \A t \in Threads : pc[t] = "idle"
  /\ handles' = handles - 1
  /\ IF handles > 1
     THEN UNCHANGED <<executor_token, registered, removed, panicked>>
     ELSE IF executor_token = "Some"
          THEN /\ executor_token' = "Taken"
               /\ registered' = FALSE
               /\ removed' = removed + 1
               /\ UNCHANGED panicked
          ELSE /\ panicked' = TRUE
               /\ UNCHANGED <<executor_token, registered, removed>>
  /\ UNCHANGED stateVars

\* ------------------------------------------------------------ specifications
\* The input callbacks, called by thread t.
InputNext(t) ==
  \/ \E p \in Points : PointerEnter(t, p)
  \/ \E p \in Points : PointerMotion(t, p)
  \/ \E c \in ButtonCodes, pressed \in BOOLEAN : PointerButton(t, c, pressed)
  \/ \E f \in AxisFrames : PointerAxis(t, f)
  \/ PointerLeave(t)
  \/ \E m \in ModifierStates : KeyboardModifiers(t, m)
  \/ \E a \in BOOLEAN : SetActivate(t, a)

\* The buffer cache, the update passes and the render requests, called by
\* one thread, with the host loop delivering the results of the futures
\* (all the same message: SpecAsync tells the results apart).
Next ==
  \/ \E o \in Outputs : OutputEnter(1, o)
  \/ \E o \in Outputs : OutputLeave(1, o)
  \/ LeaveRefresh(1)
  \/ Refresh(1)
  \/ \E s \in Sizes : Resize(1, s)
  \/ ForceUpdate(1)
  \/ \E sc \in Scales, ok \in BOOLEAN : RenderElements(1, sc, ok)
  \/ PointerLeave(1)
  \/ Deliver("a")

Spec == Init /\ [][Next]_vars

\* The input callbacks, called by one thread.
NextInput ==
  \/ InputNext(1)
  \/ \E m \in Msgs : Deliver(m)

\* An element of one size on outputs of one scale: the input callbacks read
\* neither.
InitInput == Init /\ size = <<1, 1>> /\ oscale = [o \in Outputs |-> 4]

SpecInput == InitInput /\ [][NextInput]_vars

\* The output callbacks and the render requests, called by several threads.
NextThreads ==
  \E t \in Threads :
    \/ \E o \in Outputs : OutputEnter(t, o)
    \/ \E o \in Outputs : OutputLeave(t, o)
    \/ LeaveRefresh(t)
    \/ Refresh(t)
    \/ \E sc \in Scales, ok \in BOOLEAN : RenderElements(t, sc, ok)

SpecThreads == Init /\ [][NextThreads]_vars

\* The handles of one element, cloned and dropped while it is in use.
NextHandle ==
  \/ CloneHandle
  \/ DropHandle
  \/ \E t \in Threads :
       \/ \E o \in Outputs : OutputEnter(t, o)
       \/ \E o \in Outputs : OutputLeave(t, o)
       \/ LeaveRefresh(t)

SpecHandle == Init /\ [][NextHandle]_vars

\* ------------------------------------------------------------------ claims
AllIdle == \A t \in Threads : pc[t] = "idle"

LiveScales == {oscale[o] : o \in Range(outputs)}

\* C1: with the outputs' scales fixed, after any sequence of output_enter
\* and output_leave calls the keys of the buffer map are exactly the
\* distinct scales of the outputs in the outputs collection.
C1_BufferKeysAreLiveScales == AllIdle => DOMAIN buffers = LiveScales

\* C1: A (1.0) and B (2.0) were attached and A was detached: one buffer,
\* keyed 2.0.
C1_Witness ==
  /\ oscale[1] = 4 /\ oscale[2] = 8
  /\ last.op = "output_leave" /\ AllIdle
  /\ outputs = <<2>>
  /\ DOMAIN buffers = {8}

\* C2: the registration made at construction stays in the host loop while
\* a handle exists, whatever was cloned and dropped, and is removed exactly
\* once, by the drop of the last handle.
C2_RegisteredUntilLastDrop ==
  executor_token # "None" =>
    /\ handles >= 1 => (registered /\ removed = 0 /\ executor_token = "Some")
    /\ handles = 0 => (~registered /\ removed = 1 /\ executor_token = "Taken")

\* C2: the last handle was dropped and the registration removed.
C2_Witness == handles = 0 /\ removed = 1 /\ ~registered

\* C3: every public operation is one critical section: while a thread is
\* inside output_leave, between the removal of the output and the
\* recomputation of the buffers, the only step taken is that recomputation.
C3_OneCriticalSection ==
  [][(\E t \in Threads : pc[t] = "leave")
       => (\E t \in Threads : pc[t] = "leave" /\ pc'[t] = "idle")]_vars

\* C4: resize to a size other than the current one stores the new size,
\* keeps the keys of the buffer map, and leaves every buffer freshly
\* allocated for the new size and dirty.
C4_ResizeReallocatesAll ==
  [][\A t \in Threads, s \in Sizes :
       (s # size /\ last'.op = "resize" /\ Resize(t, s)) =>
         /\ size' = s
         /\ DOMAIN buffers' = DOMAIN buffers
         /\ \A k \in DOMAIN buffers' :
              /\ buffers'[k].buf = NewBuffer(BufferSize(s, k))
              /\ buffers'[k].needs_redraw]_vars

\* C4: a resize to another size has run on two buffers, and its update
\* pass processed a message.
C4_Witness ==
  /\ last.op = "resize" /\ last.pass.ran /\ last.pass.some
  /\ size = last.arg
  /\ Cardinality(DOMAIN buffers) = 2

\* C5: resize to the current size changes nothing: no buffer, flag, size
\* or cursor position, the channel is not drained and no update step runs.
C5_ResizeSameSizeIsNoOp ==
  [][\A t \in Threads, s \in Sizes :
       (s = size /\ last'.op = "resize" /\ Resize(t, s)) =>
         /\ UNCHANGED <<buffers, size, cursor_pos, rx, inflight, outputs,
                        queued_events, queued_messages, owed>>
         /\ ~last'.pass.ran /\ ~last'.pass.stepped]_vars

\* C5: a resize to the current size returned while a result was waiting on
\* the channel and a buffer was clean.
C5_Witness ==
  /\ last.op = "resize" /\ ~last.pass.ran /\ last.arg = size
  /\ rx # <<>>
  /\ \E k \in DOMAIN buffers : ~buffers[k].needs_redraw

\* C6: a non-forced update pass that finds the channel empty runs no
\* program step, returns no effect, schedules nothing and leaves the
\* buffers, their flags and the queues as they are.
C6_LazyUpdateIsNoOp ==
  /\ rx = <<>> =>
       \A ui \in UiChoices(queued_events), cmd \in Commands :
         LET r == Update(FALSE, buffers, queued_events, cursor_pos, ui, cmd)
         IN  /\ ~r.pass.stepped
             /\ r.pass.ret = <<>>
             /\ r.pass.sched = 0 /\ r.accepted = 0
             /\ r.buffers = buffers
             /\ r.queued_events = queued_events
             /\ r.queued_messages = queued_messages
  /\ (last.op = "render_elements" /\ last.pass.drained = <<>>) =>
       (~last.pass.stepped /\ last.pass.ret = <<>> /\ last.pass.sched = 0)

\* C6: a render request ran its update pass on an empty channel, with a
\* clean buffer in the map.
C6_Witness ==
  /\ last.op = "render_elements" /\ last.pass.ran /\ last.pass.drained = <<>>
  /\ \E k \in DOMAIN buffers : ~buffers[k].needs_redraw

InputOps == {"enter", "motion", "button", "axis", "leave", "modifiers", "set_activate"}

\* C7: the program consumes the events in the order of the input calls,
\* each call's events in the forced update pass of that call, so no event
\* is left queued when a call returns.
C7_EventsInCallOrder ==
  /\ queued_events = <<>>
  /\ owed = <<>>
  /\ inOrder
  /\ last.op \in InputOps =>
       /\ last.pass.stepped
       /\ Len(last.pass.events) = IF last.op = "enter" THEN 2 ELSE 1

\* C7: a button call has returned after an earlier enter or motion call,
\* and the program has consumed the events of both.
C7_Witness ==
  /\ last.op = "button" /\ last.pass.stepped
  /\ cursor_pos # None
  /\ owed = <<>> /\ inOrder

\* C8: pointer enter at P queues "cursor entered" and then "cursor moved"
\* to P (in the program's single-precision coordinates), caches P, and its
\* forced update pass consumes both with P as the cursor position.
C8_EnterEvents ==
  last.op = "enter" =>
    LET p == last.arg
    IN  /\ last.pass.events = <<Ev("CursorEntered", 0, 0, ""),
                                Ev("CursorMoved", F32(p[1]), F32(p[2]), "")>>
        /\ cursor_pos = Some(p)
        /\ last.pass.stepped
        /\ last.pass.cursor = <<F32(p[1]), F32(p[2])>>

\* C8: an enter has run at a position that is no single-precision number,
\* and a widget answered its events with a message.
C8_Witness ==
  /\ last.op = "enter" /\ last.arg = <<3, 16777217>>
  /\ last.pass.some

\* C9: the button callback emits pressed or released as the state says,
\* with primary, secondary, middle for 0x110, 0x111, 0x112 and otherwise
\* "other" carrying the host code itself.
C9_ButtonMapping ==
  last.op = "button" =>
    LET c == last.arg[1]
        e == last.pass.events[1]
    IN  /\ e.kind = IF last.arg[2] THEN "ButtonPressed" ELSE "ButtonReleased"
        /\ c = 272 => e.tag = "Left"
        /\ c = 273 => e.tag = "Right"
        /\ c = 274 => e.tag = "Middle"
        /\ c \notin {272, 273, 274} => (e.tag = "Other" /\ e.x = c)

\* C10: a render request for a scale with no buffer returns nothing,
\* draws nothing and adds no buffer.
C10_RenderMissingScale ==
  [][\A t \in Threads, sc \in Scales, ok \in BOOLEAN :
       (sc \notin DOMAIN buffers /\ last'.op = "render_elements"
          /\ last'.arg = sc /\ RenderElements(t, sc, ok)) =>
         /\ last'.res = <<>>
         /\ ~last'.raster
         /\ DOMAIN buffers' = DOMAIN buffers]_vars

\* C10: a render request for a scale with no buffer has returned, its
\* update pass having processed a message, with other buffers in the map.
C10_Witness ==
  /\ last.op = "render_elements" /\ last.arg \notin DOMAIN buffers
  /\ last.res = <<>> /\ last.pass.some
  /\ DOMAIN buffers # {}

\* C11: construction aborts when the executor cannot be registered with
\* the host loop, so every element that `new` returned holds a live
\* registration token, and its drop deregisters without a panic.
C11_ConstructedHoldsToken ==
  /\ handles >= 1 => (executor_token = "Some" /\ registered)
  /\ ~panicked

\* ------------------------------------------------------------ scale changes
\* The scales the host may give an output: 6 is 1.5.
HostScales == Scales \cup {6}

\* The host gives output o another scale.  The element keeps the Output and
\* not its scale, which it reads with current_scale() when it needs it: it
\* is not called when the scale changes.
SetScale(o, s) ==
  /\ Alive
  /\ oscale[o] # s
  /\ oscale' = [oscale EXCEPT ![o] = s]
  /\ UNCHANGED <<handleVars, outputs, buffers, size, cursor_pos, queued_events,
                 queued_messages, rx, inflight, pc, owed, inOrder, last, fresh>>

\* The buffer cache under output callbacks, resizes and scale changes.
NextScale ==
  \/ \E o \in Outputs : OutputEnter(1, o)
  \/ \E o \in Outputs : OutputLeave(1, o)
  \/ LeaveRefresh(1)
  \/ Refresh(1)
  \/ \E s \in Sizes : Resize(1, s)
  \/ \E o \in Outputs, s \in HostScales : SetScale(o, s)

SpecScale == Init /\ [][NextScale]_vars

\* ceil(n * scale / 4) = d, for n >= 0 and scale in quarters.
IsCeilScaled(d, n, scale) == 4 * d >= n * scale /\ 4 * (d - 1) < n * scale

\* d is n * scale / 4 rounded to the nearest integer, a half going up.
IsRoundScaled(d, n, scale) == -4 < 8 * d - 2 * n * scale /\ 8 * d - 2 * n * scale <= 4

\* C12: every buffer keyed s is ceil(w * s) wide and ceil(h * s) high, for
\* the element's logical size (w, h).
C12_BufferSizeIsCeil ==
  AllIdle =>
    \A k \in DOMAIN buffers :
      /\ IsCeilScaled(buffers[k].buf.w, size[1], k)
      /\ IsCeilScaled(buffers[k].buf.h, size[2], k)

\* C12, amended: every buffer keyed s is round(w * s) wide and round(h * s)
\* high, a half rounded away from zero, for the element's logical size
\* (w, h).
C12_BufferSizeIsRounded ==
  \A k \in DOMAIN buffers :
    /\ IsRoundScaled(buffers[k].buf.w, size[1], k)
    /\ IsRoundScaled(buffers[k].buf.h, size[2], k)

\* C12: a resize to 1 x 1 has reallocated the buffers of scales 1.25 and
\* 1.5: the first is 1 x 1 (1.25 rounded down), the second 2 x 2.
C12_Witness ==
  /\ last.op = "resize" /\ size = <<1, 1>>
  /\ {5, 6} \subseteq DOMAIN buffers
  /\ buffers[5].buf.w = 1 /\ buffers[6].buf.w = 2

C14_MarkedIffMessage ==
  \A force \in BOOLEAN, evs \in {<<>>, <<Ev("CursorLeft", 0, 0, "")>>} :
    \A ui \in UiChoices(queued_events \o evs), cmd \in Commands :
      LET r == Update(force, buffers, queued_events \o evs, cursor_pos, ui, cmd)
          processed == r.pass.stepped /\ r.messages # <<>>
      IN  /\ DOMAIN r.buffers = DOMAIN buffers
          /\ \A k \in DOMAIN buffers :
               /\ r.buffers[k].buf = buffers[k].buf
               /\ r.buffers[k].needs_redraw = (buffers[k].needs_redraw \/ processed)

\* C14: a pointer leave has run its forced pass, whose step processed no
\* message, and a clean buffer is still clean.
C14_Witness ==
  /\ last.op = "leave" /\ last.pass.stepped /\ ~last.pass.some
  /\ \E k \in DOMAIN buffers : ~buffers[k].needs_redraw

\* ------------------------------------------------------------ async results
\* The operations that run an update pass, called by thread t on an element
\* that has a buffer.
PassOp(t) ==
  \/ ForceUpdate(t)
  \/ PointerLeave(t)
  \/ \E ok \in BOOLEAN : RenderElements(t, 4, ok)
  \/ \E s \in Sizes : s # size /\ Resize(t, s)

\* The update passes of one thread and the results the host loop delivers.
NextAsync ==
  \/ PassOp(1)
  \/ \E o \in Outputs : OutputEnter(1, o)
  \/ \E m \in Msgs : Deliver(m)

SpecAsync == InitInput /\ [][NextAsync]_vars

\* C15: an update pass, forced or not, takes every result that is on the
\* channel when it starts and leaves the channel empty; the results go to
\* the program in the order they arrived, after the widgets' messages; a
\* pass that took a result runs the program step; and a pass is enabled
\* while a future is still running and the channel is empty.
C15_ResultsDrainedInOrder ==
  [][/\ \A force \in BOOLEAN, ui \in UiChoices(queued_events), cmd \in Commands :
          LET r == Update(force, buffers, queued_events, cursor_pos, ui, cmd)
              n == Len(r.messages)
          IN  /\ r.rx = <<>>
              /\ r.pass.drained = rx
              /\ rx # <<>> =>
                   /\ r.pass.stepped
                   /\ n >= Len(rx)
                   /\ SubSeq(r.messages, n - Len(rx) + 1, n) = rx
                   /\ r.queued_messages = <<>>
     /\ \A t \in Threads :
          (last'.pass.ran /\ PassOp(t)) =>
            /\ rx' = <<>>
            /\ last'.pass.drained = rx
            /\ rx # <<>> => last'.pass.stepped
     /\ (Idle(1) /\ inflight > 0 /\ rx = <<>>) =>
          ENABLED (\E ok \in BOOLEAN : RenderElements(1, 4, ok))]_vars

\* C15: a render request's non-forced pass took two results, "b" having
\* arrived before "a", ran the program step and left the channel empty.
C15_Witness ==
  /\ last.op = "render_elements"
  /\ last.pass.drained = <<"b", "a">>
  /\ last.pass.stepped
  /\ rx = <<>>

\* C16: a buffer's flag goes from dirty to clean only in a render request
\* for its scale that rasterized it; a render request for a dirty buffer
\* of zero width or height rasterizes nothing and leaves the flag dirty;
\* a render request for a dirty buffer of non-zero width and height (as
\* every buffer is after a resize to such a size) rasterizes it and
\* clears the flag.
C16_FlagClearedOnlyByRaster ==
  [][/\ \A k \in DOMAIN buffers \cap DOMAIN buffers' :
          (buffers[k].needs_redraw /\ ~buffers'[k].needs_redraw) =>
            (last'.op = "render_elements" /\ last'.arg = k /\ last'.raster)
     /\ \A t \in Threads, sc \in Scales, ok \in BOOLEAN :
          (last'.op = "render_elements" /\ last'.arg = sc
             /\ sc \in DOMAIN buffers /\ buffers[sc].needs_redraw
             /\ RenderElements(t, sc, ok)) =>
            IF buffers[sc].buf.w = 0 \/ buffers[sc].buf.h = 0
              THEN /\ ~last'.raster
                   /\ buffers'[sc] = buffers[sc]
              ELSE /\ last'.raster
                   /\ ~buffers'[sc].needs_redraw
                   /\ buffers'[sc].buf.drawn]_vars

\* C16: a render request for the dirty buffer of an element 0 wide and 1
\* high has returned without rasterizing, and the buffer is still dirty.
C16_Witness ==
  /\ last.op = "render_elements" /\ ~last.raster
  /\ size = <<0, 1>>
  /\ last.arg \in DOMAIN buffers
  /\ buffers[last.arg].needs_redraw

\* C17: an update pass hands each Future action of the command its step
\* returned to the scheduler once, and returns the other actions, all of
\* them and in the command's order; a pass whose step processed no message
\* has no action to schedule or return.  On an element that holds its
\* registration every scheduled future is then in flight.
C17_FuturesScheduledOnce ==
  [][/\ \A force \in BOOLEAN, ui \in UiChoices(queued_events), cmd \in Commands :
          LET r == Update(force, buffers, queued_events, cursor_pos, ui, cmd)
          IN  /\ r.actions = IF r.messages = <<>> THEN <<>> ELSE cmd
              /\ r.pass.ret = SelectSeq(r.actions, LAMBDA a : a # "Future")
              /\ r.pass.sched =
                   Cardinality({i \in 1..Len(r.actions) : r.actions[i] = "Future"})
              /\ executor_token = "Some" => r.accepted = r.pass.sched
     /\ \A t \in Threads :
          (last'.pass.ran /\ PassOp(t)) =>
            /\ "Future" \notin Range(last'.pass.ret)
            /\ executor_token = "Some" => inflight' = inflight + last'.pass.sched]_vars

\* C17: a pass has scheduled the future of a command of three actions and
\* returned the two others in their order, and the future is in flight.
C17_Witness ==
  /\ last.pass.sched = 1
  /\ last.pass.ret = <<"Clipboard", "Window">>
  /\ inflight >= 1

\* C18: output_enter for an output whose scale has no buffer adds one
\* buffer, dirty, of the element's size at that scale; for an output whose
\* scale has a buffer it keeps that buffer and its flag.  It changes no
\* other buffer, neither the size nor the cursor position, and runs no
\* update pass: the channel and the queues are as before.
C18_OutputEnterAddsOneBuffer ==
  [][\A t \in Threads, o \in Outputs :
       (last'.op = "output_enter" /\ last'.arg = o /\ OutputEnter(t, o)) =>
         LET sc == oscale[o]
         IN  /\ DOMAIN buffers' = DOMAIN buffers \cup {sc}
             /\ \A k \in DOMAIN buffers : buffers'[k] = buffers[k]
             /\ sc \notin DOMAIN buffers =>
                  /\ buffers'[sc].needs_redraw
                  /\ buffers'[sc].buf = NewBuffer(BufferSize(size, sc))
             /\ UNCHANGED <<size, cursor_pos, rx, inflight, queued_events,
                            queued_messages>>
             /\ ~last'.pass.ran]_vars

\* C18: an output was attached whose scale had a buffer, clean and drawn,
\* and the buffer is still clean and drawn.
C18_Witness ==
  /\ last.op = "output_enter"
  /\ Len(outputs) = 2
  /\ DOMAIN buffers = {oscale[last.arg]}
  /\ ~buffers[oscale[last.arg]].needs_redraw
  /\ buffers[oscale[last.arg]].buf.drawn

\* ------------------------------------------------------------------ cursor
\* Every operation of the element, called by one thread.
NextCursor ==
  \/ InputNext(1)
  \/ \E o \in Outputs : OutputEnter(1, o)
  \/ \E o \in Outputs : OutputLeave(1, o)
  \/ LeaveRefresh(1)
  \/ Refresh(1)
  \/ \E s \in Sizes : Resize(1, s)
  \/ ForceUpdate(1)
  \/ \E ok \in BOOLEAN : RenderElements(1, 4, ok)

SpecCursor == InitInput /\ [][NextCursor]_vars

\* C19: the cached cursor position is none until the first enter or
\* motion; enter and motion set it to their event's location and nothing
\* else changes it: leave keeps it, and once set it is never none again.
C19_CursorSetByEnterAndMotion ==
  [][/\ last.op = "new" => cursor_pos = None
     /\ cursor_pos' # cursor_pos => last'.op \in {"enter", "motion"}
     /\ last'.op \in {"enter", "motion"} => cursor_pos' = Some(last'.arg)
     /\ last'.op \notin {"enter", "motion"} => cursor_pos' = cursor_pos
     /\ cursor_pos # None => cursor_pos' # None]_vars

\* C19: a leave has returned after an enter or a motion, and the cached
\* position is still that call's location.
C19_Witness ==
  /\ last.op = "leave"
  /\ cursor_pos = Some(<<3, 16777217>>)

\* C20: the outputs collection holds each output at most once: attaching
\* an output that is attached adds no second entry.
C20_OutputsDistinct ==
  \A i, j \in 1..Len(outputs) : i # j => outputs[i] # outputs[j]

\* C21: a buffer whose flag is clean is not stale: it was rasterized, at
\* the element's current size, after the last update step that processed a
\* message and after the last force_update.
C21_CleanIsFresh ==
  \A k \in DOMAIN buffers :
    ~buffers[k].needs_redraw =>
      /\ k \in fresh
      /\ buffers[k].buf = [NewBuffer(BufferSize(size, k)) EXCEPT !.drawn = TRUE]

\* C21: a render request whose pass processed a message has rasterized its
\* buffer, which is clean; another buffer, rasterized before that message,
\* is dirty again.
C21_Witness ==
  /\ last.op = "render_elements" /\ last.pass.some /\ last.raster
  /\ ~buffers[last.arg].needs_redraw
  /\ \E k \in DOMAIN buffers :
       k # last.arg /\ buffers[k].buf.drawn /\ buffers[k].needs_redraw

====
